---- MODULE Spec2Model ----
(***************************************************************************)
(* Model of flutter_operations.py: the one-shot preview deployment         *)
(* pipeline (main), its identity resolver (extract_prefix), its routing    *)
(* config emitter (create_firebase_json_with_target) and its stager        *)
(* (stage_files_for_deployment).                                           *)
(*                                                                         *)
(* Strings are sequences of one-character strings, so that splitting,      *)
(* regular-expression matching, concatenation and path joins are computed  *)
(* on the characters.  A path is a sequence of components below            *)
(* WORK_BASE_DIR (the empty path is WORK_BASE_DIR itself).                 *)
(***************************************************************************)
EXTENDS Integers, Sequences, FiniteSets, TLC

(***************************************************************************)
(* Bounds                                                                  *)
(***************************************************************************)
\* longest repository list a run is given
MaxRepos == 2

(***************************************************************************)
(* String literals of the program                                          *)
(***************************************************************************)
web_deploy_file_name == <<"w","e","b","_","d","e","p","l","o","y",".","t","x","t">>
web_deploy_project_id == <<"p","r","e","v","i","e","w","-","s","t","a","c","k">>
artifact_logs_log == <<"a","r","t","i","f","a","c","t","_","l","o","g","s",".","l","o","g">>
sa_repo_dirname == <<"s","e","r","v","i","c","e","-","a","c","c","o","u","n","t","-","r","e","p","o">>
sa_key_filename == <<"p","r","e","v","i","e","w","-","s","t","a","c","k","-","s","e","r","v","i","c","e","-","a","c","c","o","u","n","t",".","j","s","o","n">>
firebaserc_name == <<".","f","i","r","e","b","a","s","e","r","c">>
firebase_json_name == <<"f","i","r","e","b","a","s","e",".","j","s","o","n">>
deploy_staging == <<"d","e","p","l","o","y","_","s","t","a","g","i","n","g">>
pubspec_yaml == <<"p","u","b","s","p","e","c",".","y","a","m","l">>
web == <<"w","e","b">>
build == <<"b","u","i","l","d">>
index_html == <<"i","n","d","e","x",".","h","t","m","l">>
main_dart_js == <<"m","a","i","n",".","d","a","r","t",".","j","s">>
\* the workspace's directory name, str(uuid.uuid4()) of main
unique_id == <<"u","n","i","q","u","e">>

(***************************************************************************)
(* extract_prefix                                                          *)
(***************************************************************************)
HexDigits ==
  {"0","1","2","3","4","5","6","7","8","9",
   "a","b","c","d","e","f","A","B","C","D","E","F"}

\* input_str.split('_')[0]: the characters before the first underscore
RECURSIVE SplitFirst(_)
SplitFirst(s) ==
  IF s = <<>> THEN <<>>
  ELSE IF Head(s) = "_" THEN <<>>
  ELSE <<Head(s)>> \o SplitFirst(Tail(s))

\* the 36 characters are 8-4-4-4-12 hexadecimal digits joined by hyphens
UuidBody(s) ==
  /\ Len(s) = 36
  /\ \A k \in 1..36 :
       IF k \in {9, 14, 19, 24} THEN s[k] = "-" ELSE s[k] \in HexDigits

\* uuid_pattern.match(prefix): '^' anchors at the start; '$' matches at the
\* end of the string and also just before a newline that ends the string
UuidPatternMatch(prefix) ==
  \/ UuidBody(prefix)
  \/ /\ Len(prefix) = 37
     /\ prefix[37] = "\n"
     /\ UuidBody(SubSeq(prefix, 1, 36))

\* match.group(1) + match.group(2) + match.group(3) + match.group(4)
JoinGroups_firstTwo(prefix) ==
  SubSeq(prefix, 1, 8) \o SubSeq(prefix, 10, 13)

JoinGroups(prefix) ==
  SubSeq(prefix, 1, 8) \o SubSeq(prefix, 10, 13)
    \o SubSeq(prefix, 15, 18) \o SubSeq(prefix, 20, 23)

extract_prefix(input_str) ==
  LET prefix == SplitFirst(input_str)
  IN  IF UuidPatternMatch(prefix) THEN JoinGroups(prefix) ELSE prefix

(***************************************************************************)
(* create_firebase_json_with_target                                        *)
(***************************************************************************)
\* f"/{repo_name}{{,/**}}" and f"/{repo_name}/index.html"
Rewrite(repo_name) ==
  [source      |-> <<"/">> \o repo_name \o <<"{", ",", "/", "*", "*", "}">>,
   destination |-> <<"/">> \o repo_name \o <<"/">> \o index_html]

\* the loop of rewrites.append over azure_repo_names
RECURSIVE Rewrites_dedup(_)
Rewrites_dedup(names) ==
  IF names = <<>> THEN <<>>
  ELSE IF \E k \in 2..Len(names) : names[k] = Head(names)
         THEN Rewrites_dedup(Tail(names))
         ELSE <<Rewrite(Head(names))>> \o Rewrites_dedup(Tail(names))

RECURSIVE Rewrites(_)
Rewrites(names) ==
  IF names = <<>> THEN <<>>
  ELSE <<Rewrite(Head(names))>> \o Rewrites(Tail(names))

firebase_json_content(target_name, names) ==
  [hosting |-> << [target   |-> target_name,
                   public   |-> deploy_staging \o <<"/">> \o target_name,
                   rewrites |-> Rewrites(names)] >>]

(***************************************************************************)
(* The filesystem: a function from the paths that exist to their content   *)
(***************************************************************************)
NoName == <<>>
Dir == [kind |-> "dir", of |-> NoName]
File(kind, of) == [kind |-> kind, of |-> of]

IsPrefix(p, q) == Len(p) <= Len(q) /\ SubSeq(q, 1, Len(p)) = p

\* os.path.join(p, name) for a name that is one path component
Join(p, name) == Append(p, name)

\* os.path.exists
Exists(f, p) == p \in DOMAIN f

Restrict(f, S) == [q \in S |-> f[q]]

\* shutil.rmtree(p): p and everything below it is gone
RmTree(f, p) == Restrict(f, {q \in DOMAIN f : ~IsPrefix(p, q)})

\* os.makedirs(p, exist_ok=True): p and its missing ancestors become directories
MakeDirs(f, p) ==
  LET missing == {SubSeq(p, 1, k) : k \in 0..Len(p)} \ DOMAIN f
  IN  [q \in DOMAIN f \cup missing |-> IF q \in DOMAIN f THEN f[q] ELSE Dir]

\* open(p, "w") + write, or shutil.copy to p
WriteFile(f, p, c) ==
  [q \in DOMAIN f \cup {p} |-> IF q = p THEN c ELSE f[q]]

\* shutil.copytree(src, dst, dirs_exist_ok=True): every entry below src is
\* written below dst, existing entries are overwritten, nothing is deleted
CopyTree(f, src, dst) ==
  LET below  == {q \in DOMAIN f : IsPrefix(src, q) /\ q # src}
      Dest(q) == dst \o SubSeq(q, Len(src) + 1, Len(q))
      copied == {Dest(q) : q \in below}
      From(d) == CHOOSE q \in below : Dest(q) = d
  IN  [d \in DOMAIN f \cup copied |-> IF d \in copied THEN f[From(d)] ELSE f[d]]

\* the entries below p, by their path relative to p
TreeAt(f, p) ==
  LET below == {q \in DOMAIN f : IsPrefix(p, q) /\ q # p}
  IN  [r \in {SubSeq(q, Len(p) + 1, Len(q)) : q \in below} |-> f[p \o r]]

(***************************************************************************)
(* The run of main()                                                       *)
(***************************************************************************)
VARIABLES
  pc,                  \* the position of the run in main
  request_id,          \* REQUEST_ID
  azure_project_name,  \* AZURE_PROJECT_NAME, <<>> when unset or empty
  azure_repo_names,    \* json.loads(AZURE_REPO_NAMES), <<>> for "[]"
  azure_pat,           \* AZURE_PAT, <<>> when unset or empty
  gcs_bucket_name,     \* GCS_BUCKET_NAME, <<>> when unset or empty
  site_id,             \* extract_prefix(request_id)
  work_dir,            \* the set holding main's work_dir, {} while it is None
  fs,                  \* the filesystem below WORK_BASE_DIR
  global_log_buffer,   \* the lines appended by log_message
  flushed,             \* the text written to the log file at line 86
  firebase_json,       \* the document written to firebase.json, {} before
  cmds,                \* the external commands and SDK calls launched, in order
  exc,                 \* the exception travelling out of the try block
  credentials_env,     \* os.environ["GOOGLE_APPLICATION_CREDENTIALS"], {} when unset
  gcloud_account,      \* TRUE once gcloud has activated the service account
  project_repo_paths,  \* main's list of (repo_name, project_repo_path)
  idx,                 \* the index of the repository the current loop is at
  sites,               \* the hosting sites that exist in the project
  bindings,            \* the (target, site) pairs applied with target:apply
  live,                \* the content each site serves
  bucket_objects,      \* the objects of the blob store
  outcome,             \* "running", then "returned" or "raised"
  hist                 \* what has happened in the run so far

vars ==
  <<pc, request_id, azure_project_name, azure_repo_names, azure_pat,
    gcs_bucket_name, site_id, work_dir, fs, global_log_buffer, flushed,
    firebase_json, cmds,
    exc, credentials_env, gcloud_account, project_repo_paths, idx, sites,
    bindings, live, bucket_objects, outcome, hist>>

\* what a run reads and never writes
inputs ==
  <<request_id, azure_project_name, azure_repo_names, azure_pat, gcs_bucket_name>>

(***************************************************************************)
(* The inputs of the runs that are checked                                 *)
(***************************************************************************)
app1 == <<"a","p","p","1">>
app2 == <<"a","p","p","2">>
\* Repository names are names a repository can have: one non-empty path
\* component.  deploy_staging is such a name, and is also the name of the
\* directory main() keeps the staging tree in.
Names == {app1, app2, deploy_staging}

RECURSIVE SeqsUpTo(_, _)
SeqsUpTo(S, n) ==
  IF n = 0 THEN {<<>>}
  ELSE LET shorter == SeqsUpTo(S, n - 1)
       IN  shorter \cup {Append(q, x) : q \in shorter, x \in S}

RepoLists == SeqsUpTo(Names, MaxRepos)

uuid_request ==
  <<"b","3","b","5","e","3","a","0","-","1","2","3","4","-","4","a","b","c","-",
    "9","d","e","f","-","a","b","c","d","e","f","1","2","3","4","5","6",
    "_","p","r","e","v","i","e","w">>
plain_request == <<"r","e","q","4","2">>
RequestIds == {uuid_request, plain_request}

some_project == <<"m","y"," ","p","r","o","j">>
some_pat == <<"t","0","k","3","n">>
some_bucket == <<"l","o","g","s">>

(***************************************************************************)
(* Helpers of the run                                                      *)
(***************************************************************************)
NoExc == [kind |-> "None", step |-> "None"]
Exc(kind, step) == [kind |-> kind, step |-> step]

\* log_message(request_id, message, error): the line of the source that
\* logs, the values interpolated into the message, the error flag
Line(n, args, error) == [line |-> n, args |-> args, error |-> error]
Info(n) == Line(n, <<>>, FALSE)
Error(n) == Line(n, <<>>, TRUE)

\* log_file_content with a readable file: lines 21 and 23
LogFileContent == <<Info(21), Info(23)>>

Cmd(name, target, cwd, rc) == [cmd |-> name, target |-> target, cwd |-> cwd, rc |-> rc]

Truthy(s) == s # <<>>

\* line 43: all([azure_project_name, azure_pat, azure_repo_names and ... > 0])
ConfigComplete ==
  /\ Truthy(azure_project_name)
  /\ Truthy(azure_pat)
  /\ Len(azure_repo_names) > 0

\* the order of the steps of main's try block, lines 37-89
MainSteps_siteBeforeStaging ==
  <<"read_config", "create_workspace", "setup_service_account",
    "activate_gcloud_auth", "create_firebase_rc", "create_firebase_json",
    "prepare_staging", "clone", "build", "ensure_site", "apply_target",
    "deploy", "stage", "flush_log", "artifact_log", "upload">>

MainSteps_uploadBeforeDeploy ==
  <<"read_config", "create_workspace", "setup_service_account",
    "activate_gcloud_auth", "create_firebase_rc", "create_firebase_json",
    "prepare_staging", "clone", "build", "stage", "ensure_site",
    "apply_target", "flush_log", "artifact_log", "upload", "deploy">>

MainSteps_deployBeforeBind ==
  <<"read_config", "create_workspace", "setup_service_account",
    "activate_gcloud_auth", "create_firebase_rc", "create_firebase_json",
    "prepare_staging", "clone", "build", "stage", "ensure_site",
    "deploy", "apply_target", "flush_log", "artifact_log", "upload">>

MainSteps ==
  <<"read_config", "create_workspace", "setup_service_account",
    "activate_gcloud_auth", "create_firebase_rc", "create_firebase_json",
    "prepare_staging", "clone", "build", "stage", "ensure_site",
    "apply_target", "deploy", "flush_log", "artifact_log", "upload">>

\* the step that follows a completed step; the finally clause follows the last
StepAfter(step) ==
  LET k == CHOOSE j \in 1..Len(MainSteps) : MainSteps[j] = step
  IN  IF k = Len(MainSteps) THEN "finally" ELSE MainSteps[k + 1]

WorkDir == CHOOSE w \in work_dir : TRUE

Raise_continue(kind, lines) ==
  /\ exc' = Exc(kind, pc)
  /\ global_log_buffer' = global_log_buffer \o lines
  /\ pc' = StepAfter(pc)

\* a step of the try block raises: control goes to the except clause
Raise(kind, lines) ==
  /\ exc' = Exc(kind, pc)
  /\ global_log_buffer' = global_log_buffer \o lines
  /\ pc' = "except"

Proceed_silent(lines) ==
  /\ pc' = StepAfter(pc)
  /\ UNCHANGED <<global_log_buffer, exc>>

\* a step of the try block completes
Proceed(lines) ==
  /\ global_log_buffer' = global_log_buffer \o lines
  /\ pc' = StepAfter(pc)
  /\ UNCHANGED exc

\* shutil.rmtree(p) at a step: the trees the run has deleted, with the step
\* that deleted them and whether p was the fetch tree of a repository entry
Removed(h, f, p) ==
  IF Exists(f, p)
    THEN [h EXCEPT !.removed = @ \cup
            {[path |-> p, step |-> pc,
              tree |-> \E k \in DOMAIN project_repo_paths :
                         project_repo_paths[k].path = p]}]
    ELSE h

Init ==
  /\ pc = "read_config"
  /\ request_id \in RequestIds
  /\ azure_project_name \in {<<>>, some_project}
  /\ azure_repo_names \in RepoLists
  /\ azure_pat \in {<<>>, some_pat}
  /\ gcs_bucket_name \in {<<>>, some_bucket}
  /\ site_id = <<>>
  /\ work_dir = {}
  /\ fs = <<>>
  /\ global_log_buffer = <<>>
  /\ flushed = <<>>
  /\ firebase_json = {}
  /\ cmds = <<>>
  /\ exc = NoExc
  /\ credentials_env = {}
  /\ gcloud_account = FALSE
  /\ project_repo_paths = <<>>
  /\ idx = 1
  /\ \E prior \in BOOLEAN :
       LET s == extract_prefix(request_id)
       IN  /\ sites = IF prior THEN {s} ELSE {}
           /\ bindings = IF prior THEN {<<s, s>>} ELSE {}
           /\ live = IF prior THEN {[site |-> s, tree |-> <<>>]} ELSE {}
  /\ bucket_objects = {}
  /\ outcome = "running"
  /\ hist = [ws_created |-> FALSE, rm_attempts |-> 0, rm_failed |-> FALSE,
             fetched |-> 0, built |-> 0, staged |-> 0, published |-> FALSE,
             removed |-> {}]

(***************************************************************************)
(* The steps of main's try block                                           *)
(***************************************************************************)
service_accounts == <<"s","e","r","v","i","c","e","-","a","c","c","o","u","n","t","s">>

\* lines 37-47: read the environment, check it, derive the site id
ReadConfig ==
  /\ pc = "read_config"
  /\ IF ~ConfigComplete
       THEN /\ Raise("ValueError", <<>>)
            /\ UNCHANGED site_id
       ELSE /\ site_id' = extract_prefix(request_id)
            /\ Proceed(<<Line(47, <<site_id'>>, FALSE)>>)
  /\ UNCHANGED <<inputs, work_dir, fs, flushed, firebase_json, cmds,
                 credentials_env,
                 gcloud_account, project_repo_paths, idx, sites, bindings,
                 live, bucket_objects, outcome, hist>>

\* lines 49-55: name the workspace, then create it
CreateWorkspace ==
  /\ pc = "create_workspace"
  /\ work_dir' = {<<unique_id>>}
  /\ \E ok \in BOOLEAN :
       IF ok
         THEN /\ fs' = MakeDirs(fs, <<unique_id>>)
              /\ hist' = [hist EXCEPT !.ws_created = TRUE]
              /\ Proceed(<<Line(53, <<unique_id>>, FALSE),
                           Line(55, azure_repo_names, FALSE)>>)
         ELSE /\ Raise("OSError", <<>>)
              /\ UNCHANGED <<fs, hist>>
  /\ UNCHANGED <<inputs, site_id, flushed, firebase_json, cmds,
                 credentials_env,
                 gcloud_account, project_repo_paths, idx, sites, bindings,
                 live, bucket_objects, outcome>>

\* lines 131-161: fetch the service account key and make it the credential
SetupServiceAccount ==
  /\ pc = "setup_service_account"
  /\ LET sa_repo_dir == Join(WorkDir, sa_repo_dirname)
         target_key_path == Join(WorkDir, sa_key_filename)
         source_key_path == Join(sa_repo_dir, sa_key_filename)
         cleared == IF Exists(fs, sa_repo_dir) THEN RmTree(fs, sa_repo_dir) ELSE fs
         cloned == MakeDirs(cleared, sa_repo_dir)
         clone(rc) == Cmd("git clone", service_accounts, "process", rc)
     IN  \/ /\ cmds' = Append(cmds, clone(1))
            /\ fs' = cleared
            /\ Raise("CalledProcessError", <<Info(132), Info(141), Error(146)>>)
            /\ hist' = Removed(hist, fs, sa_repo_dir)
            /\ UNCHANGED credentials_env
         \/ /\ cmds' = Append(cmds, clone(0))
            /\ fs' = cloned
            /\ Raise("FileNotFoundError", <<Info(132), Info(141), Info(144)>>)
            /\ hist' = Removed(hist, fs, sa_repo_dir)
            /\ UNCHANGED credentials_env
         \/ /\ cmds' = Append(cmds, clone(0))
            /\ fs' = RmTree(WriteFile(WriteFile(cloned, source_key_path, File("key", NoName)),
                                      target_key_path, File("key", NoName)),
                            sa_repo_dir)
            /\ credentials_env' = {target_key_path}
            /\ hist' = Removed(Removed(hist, fs, sa_repo_dir), cloned, sa_repo_dir)
            /\ Proceed(<<Info(132), Info(141), Info(144), Info(154)>>
                         \o LogFileContent \o <<Info(158)>>)
  /\ UNCHANGED <<inputs, site_id, work_dir, flushed, firebase_json,
                 gcloud_account,
                 project_repo_paths, idx, sites, bindings, live,
                 bucket_objects, outcome>>

\* lines 163-172: activate the service account, then set the project
ActivateGcloudAuth ==
  /\ pc = "activate_gcloud_auth"
  /\ LET activate(rc) == Cmd("gcloud auth activate-service-account", sa_key_filename, "process", rc)
         setproject(rc) == Cmd("gcloud config set project", web_deploy_project_id, "process", rc)
     IN  \/ /\ cmds' = Append(cmds, activate(1))
            /\ Raise("CalledProcessError", <<Info(164), Error(171)>>)
            /\ UNCHANGED gcloud_account
         \/ /\ cmds' = cmds \o <<activate(0), setproject(1)>>
            /\ gcloud_account' = TRUE
            /\ Raise("CalledProcessError", <<Info(164), Info(167), Error(171)>>)
         \/ /\ cmds' = cmds \o <<activate(0), setproject(0)>>
            /\ gcloud_account' = TRUE
            /\ Proceed(<<Info(164), Info(167), Info(169)>>)
  /\ UNCHANGED <<inputs, site_id, work_dir, fs, flushed, firebase_json,
                 credentials_env,
                 project_repo_paths, idx, sites, bindings, live,
                 bucket_objects, outcome, hist>>

\* lines 174-184: write .firebaserc
CreateFirebaseRc ==
  /\ pc = "create_firebase_rc"
  /\ \/ /\ fs' = WriteFile(fs, Join(WorkDir, firebaserc_name), File("firebaserc", NoName))
        /\ Proceed(<<Info(180)>> \o LogFileContent)
     \/ /\ Raise("IOError", <<Error(183)>>)
        /\ UNCHANGED fs
  /\ UNCHANGED <<inputs, site_id, work_dir, flushed, firebase_json, cmds,
                 credentials_env,
                 gcloud_account, project_repo_paths, idx, sites, bindings,
                 live, bucket_objects, outcome, hist>>

\* lines 186-213: write firebase.json
CreateFirebaseJson ==
  /\ pc = "create_firebase_json"
  /\ \/ /\ fs' = WriteFile(fs, Join(WorkDir, firebase_json_name), File("firebase_json", NoName))
        /\ firebase_json' = {firebase_json_content(site_id, azure_repo_names)}
        /\ Proceed(<<Line(187, <<site_id>>, FALSE), Info(209)>> \o LogFileContent)
     \/ /\ Raise("IOError", <<Line(187, <<site_id>>, FALSE), Error(212)>>)
        /\ UNCHANGED <<fs, firebase_json>>
  /\ UNCHANGED <<inputs, site_id, work_dir, flushed, cmds, credentials_env,
                 gcloud_account, project_repo_paths, idx, sites, bindings,
                 live, bucket_objects, outcome, hist>>

\* os.path.join(work_dir, "deploy_staging", site_id)
PublicStagingDir == Join(Join(WorkDir, deploy_staging), site_id)

\* lines 61-65: create the staging root of the site
PrepareStaging ==
  /\ pc = "prepare_staging"
  /\ LET cleared == IF Exists(fs, PublicStagingDir)
                      THEN RmTree(fs, PublicStagingDir) ELSE fs
     IN  \/ /\ fs' = MakeDirs(cleared, PublicStagingDir)
            /\ Proceed(<<>>)
         \/ /\ fs' = cleared
            /\ Raise("OSError", <<>>)
  /\ hist' = Removed(hist, fs, PublicStagingDir)
  /\ UNCHANGED <<inputs, site_id, work_dir, flushed, firebase_json, cmds,
                 credentials_env, gcloud_account, project_repo_paths, idx,
                 sites, bindings, live, bucket_objects, outcome>>

\* one pass of a loop over the repository list completes
Loop(lines) ==
  /\ global_log_buffer' = global_log_buffer \o lines
  /\ IF idx < Len(azure_repo_names)
       THEN pc' = pc /\ idx' = idx + 1
       ELSE pc' = StepAfter(pc) /\ idx' = 1
  /\ UNCHANGED exc

\* urllib.parse.quote(s, safe=''): letters, digits and _ . - ~ stay, every
\* other character becomes its percent escape
Unreserved ==
  {"a","b","c","d","e","f","g","h","i","j","k","l","m","n","o","p","q","r","s",
   "t","u","v","w","x","y","z","0","1","2","3","4","5","6","7","8","9",
   "_",".","-","~"}

Escape(c) ==
  CASE c = " " -> <<"%","2","0">>
    [] c = "/" -> <<"%","2","F">>
    [] OTHER   -> <<"%","?","?">>

RECURSIVE quote(_)
quote(s) ==
  IF s = <<>> THEN <<>>
  ELSE (IF Head(s) \in Unreserved THEN <<Head(s)>> ELSE Escape(Head(s)))
         \o quote(Tail(s))

\* lines 288-290: the exception a failed fetch re-raises
CloneError == "CalledProcessError"

\* lines 69-72 and 274-290: fetch the repository at idx
CloneProjectRepo ==
  /\ pc = "clone"
  /\ LET repo_name == azure_repo_names[idx]
         project_repo_path == Join(WorkDir, repo_name)
         cleared == IF Exists(fs, project_repo_path)
                      THEN RmTree(fs, project_repo_path) ELSE fs
         clone(rc) == Cmd("git clone", quote(azure_project_name) \o <<"/">> \o quote(repo_name),
                          "process", rc)
         before == <<Line(70, <<repo_name>>, FALSE), Info(275),
                     Line(283, <<azure_pat, quote(azure_project_name),
                                 quote(repo_name)>>, FALSE)>>
     IN  \/ /\ cmds' = Append(cmds, clone(1))
            /\ fs' = cleared
            /\ Raise(CloneError, before \o <<Error(289)>>)
            /\ hist' = Removed(hist, fs, project_repo_path)
            /\ UNCHANGED <<project_repo_paths, idx>>
         \/ \E has_pubspec, has_web_index \in BOOLEAN :
              LET repo == MakeDirs(cleared, project_repo_path)
                  with_pubspec ==
                    IF has_pubspec
                      THEN WriteFile(repo, Join(project_repo_path, pubspec_yaml),
                                     File("source", repo_name))
                      ELSE repo
                  with_web ==
                    IF has_web_index
                      THEN WriteFile(MakeDirs(with_pubspec, Join(project_repo_path, web)),
                                     Join(Join(project_repo_path, web), index_html),
                                     File("source", repo_name))
                      ELSE with_pubspec
              IN  /\ cmds' = Append(cmds, clone(0))
                  /\ fs' = with_web
                  /\ project_repo_paths' =
                       Append(project_repo_paths,
                              [name |-> repo_name, path |-> project_repo_path])
                  /\ hist' = [Removed(hist, fs, project_repo_path)
                                EXCEPT !.fetched = @ + 1]
                  /\ Loop(before \o <<Info(286)>>)
  /\ UNCHANGED <<inputs, site_id, work_dir, flushed, firebase_json,
                 credentials_env, gcloud_account, sites, bindings, live,
                 bucket_objects, outcome>>

\* what a build that reports success leaves at build/web: nothing, the
\* assets with index.html, or assets without index.html
BuildOutputs == {"none", "index", "assets"}

\* flutter build web --base-href=/{repo_name}/ rewrites build/web
BuildWeb(f, flutter_project_path, repo_name, out) ==
  LET build_web == Join(Join(flutter_project_path, build), web)
      cleared == IF Exists(f, build_web) THEN RmTree(f, build_web) ELSE f
      assets == WriteFile(MakeDirs(cleared, build_web),
                          Join(build_web, main_dart_js), File("built", repo_name))
  IN  CASE out = "none"   -> cleared
        [] out = "assets" -> assets
        [] out = "index"  -> WriteFile(assets, Join(build_web, index_html),
                                       File("built", repo_name))

\* lines 310-314: the exception raised for a missing manifest or entry point
BuildPreconditionError == "FileNotFoundError"

\* lines 332-337: the exception a failed build stage re-raises
BuildCommandError == "CalledProcessError"

\* lines 293-337: one pass of the loop of build_flutter_app
\* line 324: the base path handed to the web build
BaseHref_root(repo_name) == <<"/">>

BaseHref(repo_name) == <<"/">> \o repo_name \o <<"/">>

\* lines 310 and 312: the two checks made before any build stage
HasPubspec(f, flutter_project_path) ==
  Exists(f, Join(flutter_project_path, pubspec_yaml))

HasWebIndex_unchecked(f, flutter_project_path) == TRUE

HasWebIndex(f, flutter_project_path) ==
  Exists(f, Join(Join(flutter_project_path, web), index_html))

BuildFlutterApp ==
  /\ pc = "build"
  /\ LET repo_name == project_repo_paths[idx].name
         flutter_project_path == project_repo_paths[idx].path
         listing == <<Cmd("ls", repo_name, "process", 0),
                      Cmd("ls", repo_name \o <<"/">> \o web, "process", 0)>>
         pub_get(rc) == Cmd("flutter pub get", repo_name, "project_repo_path", rc)
         build_web(rc) == Cmd("flutter build web", BaseHref(repo_name),
                                 "project_repo_path", rc)
         checks == <<Line(294, <<repo_name>>, FALSE), Info(297), Info(298),
                     Info(299), Info(301), Info(305)>>
         failed == <<Error(333), Error(334), Error(335), Error(336)>>
     IN  \/ /\ ~HasPubspec(fs, flutter_project_path)
            /\ cmds' = cmds \o listing
            /\ Raise(BuildPreconditionError, checks)
            /\ UNCHANGED <<fs, idx, hist>>
         \/ /\ HasPubspec(fs, flutter_project_path)
            /\ ~HasWebIndex(fs, flutter_project_path)
            /\ cmds' = cmds \o listing
            /\ Raise(BuildPreconditionError, checks \o <<Error(313)>>)
            /\ UNCHANGED <<fs, idx, hist>>
         \/ /\ HasPubspec(fs, flutter_project_path)
            /\ HasWebIndex(fs, flutter_project_path)
            /\ \/ /\ cmds' = cmds \o listing \o <<pub_get(1)>>
                  /\ Raise(BuildCommandError, checks \o <<Info(317)>> \o failed)
                  /\ UNCHANGED <<fs, idx, hist>>
               \/ /\ cmds' = cmds \o listing \o <<pub_get(0), build_web(1)>>
                  /\ Raise(BuildCommandError,
                           checks \o <<Info(317), Info(319), Info(323)>> \o failed)
                  /\ UNCHANGED <<fs, idx, hist>>
               \/ \E out \in BuildOutputs :
                    /\ cmds' = cmds \o listing \o <<pub_get(0), build_web(0)>>
                    /\ fs' = BuildWeb(fs, flutter_project_path, repo_name, out)
                    /\ hist' = [hist EXCEPT !.built = @ + 1]
                    /\ Loop(checks \o <<Info(317), Info(319), Info(323), Info(326)>>)
  /\ UNCHANGED <<inputs, site_id, work_dir, flushed, firebase_json,
                 credentials_env, gcloud_account, project_repo_paths, sites,
                 bindings, live, bucket_objects, outcome>>

\* line 349-350: the exception staging raises when build/web is missing
MissingBuildOutputError == "FileNotFoundError"

\* os.path.join(project_repo_path, "build", "web")
BuildOutputPath(project_repo_path) == Join(Join(project_repo_path, build), web)

\* lines 341-353: the filesystem after the repository's subdirectory is made
\* and its build output is copied into it
Staged_recreatingRoot(f, repo_name, project_repo_path) ==
  CopyTree(MakeDirs(RmTree(f, PublicStagingDir), Join(PublicStagingDir, repo_name)),
           BuildOutputPath(project_repo_path), Join(PublicStagingDir, repo_name))

Staged(f, repo_name, project_repo_path) ==
  CopyTree(MakeDirs(f, Join(PublicStagingDir, repo_name)),
           BuildOutputPath(project_repo_path), Join(PublicStagingDir, repo_name))

\* lines 339-359: stage the build output of the repository at idx
StageFiles ==
  /\ pc = "stage"
  /\ LET repo_name == project_repo_paths[idx].name
         project_repo_path == project_repo_paths[idx].path
         app_staging_path == Join(PublicStagingDir, repo_name)
         made == MakeDirs(fs, app_staging_path)
     IN  \/ /\ ~Exists(made, BuildOutputPath(project_repo_path))
            /\ fs' = made
            /\ Raise(MissingBuildOutputError, <<Info(340), Info(347)>>)
            /\ UNCHANGED <<idx, hist>>
         \/ /\ Exists(made, BuildOutputPath(project_repo_path))
            /\ \/ /\ fs' = Staged(fs, repo_name, project_repo_path)
                  /\ hist' = [hist EXCEPT !.staged = @ + 1]
                  /\ Loop(<<Info(340), Info(347), Info(354), Info(355), Info(356)>>)
               \/ /\ fs' = made
                  /\ Raise("OSError", <<Info(340), Info(347), Error(358)>>)
                  /\ UNCHANGED <<idx, hist>>
  /\ UNCHANGED <<inputs, site_id, work_dir, flushed, firebase_json, cmds,
                 credentials_env, gcloud_account, project_repo_paths, sites,
                 bindings, live, bucket_objects, outcome>>

\* line 228, check=False: no exit code of the create command raises
SiteCreateRaises_checked(rc) == rc # 0

SiteCreateRaises(rc) == FALSE

\* lines 215-241: attempt to create the hosting site
EnsureSite ==
  /\ pc = "ensure_site"
  /\ LET before == <<Line(216, <<site_id>>, FALSE), Line(219, <<site_id>>, FALSE)>>
         create(rc) == Cmd("firebase hosting:sites:create", site_id, "WORK_BASE_DIR", rc)
     IN  \/ /\ credentials_env = {}
            /\ Raise("ValueError", before \o <<Error(223), Error(240)>>)
            /\ UNCHANGED <<cmds, sites>>
         \/ /\ credentials_env # {}
            /\ Raise("FileNotFoundError", before \o <<Info(226), Error(237)>>)
            /\ UNCHANGED <<cmds, sites>>
         \/ /\ credentials_env # {}
            /\ \E rc \in {0, 1} :
                 /\ rc = 0 => site_id \notin sites
                 /\ cmds' = Append(cmds, create(rc))
                 /\ sites' = IF rc = 0 THEN sites \cup {site_id} ELSE sites
                 /\ IF SiteCreateRaises(rc)
                      THEN Raise("CalledProcessError", before \o <<Info(226), Error(240)>>)
                      ELSE Proceed(before \o <<Info(226), Info(229), Info(230),
                                               IF rc = 0 THEN Line(233, <<site_id>>, FALSE)
                                                         ELSE Line(235, <<site_id>>, FALSE)>>)
  /\ UNCHANGED <<inputs, site_id, work_dir, fs, flushed, firebase_json,
                 credentials_env, gcloud_account, project_repo_paths, idx,
                 bindings, live, bucket_objects, outcome, hist>>

\* lines 243-272, called at line 81 with target_name = site_id
ApplyTarget ==
  /\ pc = "apply_target"
  /\ LET target_name == site_id
         before == <<Line(244, <<target_name, site_id>>, FALSE),
                     Line(247, <<target_name, site_id>>, FALSE)>>
         apply(rc) == Cmd("firebase target:apply hosting", target_name \o <<" ">> \o site_id,
                          "work_dir", rc)
     IN  \/ /\ credentials_env = {}
            /\ Raise("ValueError", before \o <<Error(252), Error(271)>>)
            /\ UNCHANGED <<cmds, bindings>>
         \/ /\ credentials_env # {}
            /\ cmds' = Append(cmds, apply(1))
            /\ Raise("CalledProcessError", before \o <<Error(266), Error(267), Error(268)>>)
            /\ UNCHANGED bindings
         \/ /\ credentials_env # {}
            /\ cmds' = Append(cmds, apply(0))
            /\ bindings' = bindings \cup {<<target_name, site_id>>}
            /\ Proceed(before \o <<Info(257), Line(260, <<target_name, site_id>>, FALSE)>>)
  /\ UNCHANGED <<inputs, site_id, work_dir, fs, flushed, firebase_json,
                 credentials_env, gcloud_account, project_repo_paths, idx,
                 sites, live, bucket_objects, outcome, hist>>

\* lines 361-390, called at line 83 with target_name = site_id: publish the
\* public root of the target; the push succeeds only to a site that exists
\* and that the target is bound to
DeployWithFirebaseCli ==
  /\ pc = "deploy"
  /\ LET target_name == site_id
         before == <<Line(362, <<target_name>>, FALSE), Line(365, <<target_name>>, FALSE)>>
         deploy(rc) == Cmd("firebase deploy --only=hosting", target_name, "work_dir", rc)
     IN  \/ /\ credentials_env = {}
            /\ Raise("ValueError", before \o <<Error(370), Error(389)>>)
            /\ UNCHANGED <<cmds, live, hist>>
         \/ /\ credentials_env # {}
            /\ cmds' = Append(cmds, deploy(1))
            /\ Raise("CalledProcessError", before \o <<Error(384), Error(385), Error(386)>>)
            /\ UNCHANGED <<live, hist>>
         \/ /\ credentials_env # {}
            /\ site_id \in sites
            /\ <<target_name, site_id>> \in bindings
            /\ cmds' = Append(cmds, deploy(0))
            /\ live' = {l \in live : l.site # site_id}
                         \cup {[site |-> site_id, tree |-> TreeAt(fs, PublicStagingDir)]}
            /\ hist' = [hist EXCEPT !.published = TRUE]
            /\ Proceed(before \o <<Info(375), Line(378, <<target_name>>, FALSE)>>)
  /\ UNCHANGED <<inputs, site_id, work_dir, fs, flushed, firebase_json,
                 credentials_env, gcloud_account, project_repo_paths, idx,
                 sites, bindings, bucket_objects, outcome>>

LogFilePath_inBaseDir == <<request_id \o <<"_">> \o web_deploy_file_name>>

\* os.path.join(work_dir, f"{request_id}_{web_deploy_file_name}")
LogFilePath == Join(WorkDir, request_id \o <<"_">> \o web_deploy_file_name)

\* lines 84-86: write the log buffer to the log file
FlushLog ==
  /\ pc = "flush_log"
  /\ \/ /\ fs' = WriteFile(fs, LogFilePath, File("log", request_id))
        /\ flushed' = global_log_buffer
        /\ Proceed(<<>>)
     \/ /\ Raise("IOError", <<>>)
        /\ UNCHANGED <<fs, flushed>>
  /\ UNCHANGED <<inputs, site_id, work_dir, firebase_json, cmds,
                 credentials_env, gcloud_account, project_repo_paths, idx,
                 sites, bindings, live, bucket_objects, outcome, hist>>

\* lines 105-109: copy the log file to WORK_BASE_DIR/artifact_logs.log
CreateArtifactLogFile ==
  /\ pc = "artifact_log"
  /\ \/ /\ fs' = WriteFile(fs, <<artifact_logs_log>>, fs[LogFilePath])
        /\ Proceed(<<Info(109)>>)
     \/ /\ Raise("OSError", <<>>)
        /\ UNCHANGED fs
  /\ UNCHANGED <<inputs, site_id, work_dir, flushed, firebase_json, cmds,
                 credentials_env, gcloud_account, project_repo_paths, idx,
                 sites, bindings, live, bucket_objects, outcome, hist>>

\* f"{request_id}/{web_deploy_file_name}"
GcsFileName == request_id \o <<"/">> \o web_deploy_file_name

\* lines 88-89 and 392-401: upload the log file; a bucket without a name
\* takes no upload
UploadToGcs ==
  /\ pc = "upload"
  /\ LET upload(rc) == Cmd("upload_to_gcs", GcsFileName, "process", rc)
     IN  \/ /\ Truthy(gcs_bucket_name)
            /\ cmds' = Append(cmds, upload(0))
            /\ bucket_objects' =
                 {o \in bucket_objects : o.key # GcsFileName}
                   \cup {[key |-> GcsFileName, content |-> flushed]}
            /\ Proceed(<<Info(89)>>)
         \/ /\ cmds' = Append(cmds, upload(1))
            /\ Raise("Exception", <<>>)
            /\ UNCHANGED bucket_objects
  /\ UNCHANGED <<inputs, site_id, work_dir, fs, flushed, firebase_json,
                 credentials_env, gcloud_account, project_repo_paths, idx,
                 sites, bindings, live, outcome, hist>>

(***************************************************************************)
(* The except and finally clauses of main                                  *)
(***************************************************************************)
\* lines 91-95: log the failure; the bare raise re-raises it after finally
HandleException ==
  /\ pc = "except"
  /\ global_log_buffer' = Append(global_log_buffer, Error(92))
  /\ pc' = "finally"
  /\ UNCHANGED <<inputs, site_id, work_dir, fs, flushed, firebase_json, cmds,
                 exc, credentials_env, gcloud_account, project_repo_paths,
                 idx, sites, bindings, live, bucket_objects, outcome, hist>>

\* line 97: if work_dir and os.path.exists(work_dir)
\* line 95 and the end of main: a bare raise in the except clause re-raises
\* the exception once the finally clause is over, whatever the removal did
Outcome_swallowed(e, removal_failed) == "returned"

Outcome_escalating(e, removal_failed) ==
  IF e = NoExc /\ ~removal_failed THEN "returned" ELSE "raised"

Outcome(e, removal_failed) ==
  IF e = NoExc THEN "returned" ELSE "raised"

CleanupGuard_onSuccess ==
  work_dir # {} /\ Exists(fs, WorkDir) /\ exc = NoExc

CleanupGuard ==
  work_dir # {} /\ Exists(fs, WorkDir)

\* lines 96-103: remove the workspace, then return or re-raise
Cleanup ==
  /\ pc = "finally"
  /\ IF CleanupGuard
       THEN \/ /\ fs' = RmTree(fs, WorkDir)
               /\ global_log_buffer' =
                    Append(global_log_buffer, Line(101, <<unique_id>>, FALSE))
               /\ hist' = [Removed(hist, fs, WorkDir) EXCEPT !.rm_attempts = @ + 1]
            \/ /\ fs' = fs
               /\ global_log_buffer' = Append(global_log_buffer, Error(103))
               /\ hist' = [hist EXCEPT !.rm_attempts = @ + 1, !.rm_failed = TRUE]
       ELSE UNCHANGED <<fs, global_log_buffer, hist>>
  /\ pc' = "done"
  /\ outcome' = Outcome(exc, hist'.rm_failed)
  /\ UNCHANGED <<inputs, site_id, work_dir, flushed, firebase_json, cmds, exc,
                 credentials_env, gcloud_account, project_repo_paths, idx,
                 sites, bindings, live, bucket_objects>>

Next ==
  \/ ReadConfig
  \/ CreateWorkspace
  \/ SetupServiceAccount
  \/ ActivateGcloudAuth
  \/ CreateFirebaseRc
  \/ CreateFirebaseJson
  \/ PrepareStaging
  \/ CloneProjectRepo
  \/ BuildFlutterApp
  \/ StageFiles
  \/ EnsureSite
  \/ ApplyTarget
  \/ DeployWithFirebaseCli
  \/ FlushLog
  \/ CreateArtifactLogFile
  \/ UploadToGcs
  \/ HandleException
  \/ Cleanup

Spec == Init /\ [][Next]_vars

(***************************************************************************)
(* Claims about the run                                                    *)
(***************************************************************************)
Done == pc = "done"

LastCmd == cmds[Len(cmds)]

HostingCmds ==
  {"firebase hosting:sites:create", "firebase target:apply hosting",
   "firebase deploy --only=hosting"}

Invoked(names) == \E k \in 1..Len(cmds) : cmds[k].cmd \in names

\* C1: in a run that created the workspace, however the run ends, the
\* removal of the workspace is attempted exactly once (never more than once
\* before the end), and unless the removal failed the workspace directory
\* does not exist when main() returns or raises.
C1_WorkspaceRemovedOnce ==
  /\ hist.rm_attempts <= 1
  /\ (Done /\ hist.ws_created) =>
       /\ hist.rm_attempts = 1
       /\ ~hist.rm_failed => ~Exists(fs, WorkDir)

\* a failed run that had created the workspace has ended with it removed
C1_Witness ==
  /\ Done /\ hist.ws_created /\ outcome = "raised"
  /\ hist.rm_attempts = 1 /\ ~hist.rm_failed /\ ~Exists(fs, WorkDir)

\* C2: site creation, target binding and publish are invoked only after
\* every repository of the list has been fetched, built and staged
\* successfully; a run in which a fetch, a build check, a build stage or a
\* stage step failed never invokes any of the three.
C2_HostingOnlyAfterAllStaged ==
  /\ Invoked(HostingCmds) =>
       /\ hist.fetched = Len(azure_repo_names)
       /\ hist.built = Len(azure_repo_names)
       /\ hist.staged = Len(azure_repo_names)
  /\ exc.step \in {"clone", "build", "stage"} => ~Invoked(HostingCmds)

\* the publish command has run after two repositories were staged
C2_Witness ==
  /\ Invoked({"firebase deploy --only=hosting"})
  /\ Len(azure_repo_names) = 2
  /\ hist.staged = 2

\* C3: when a required input is absent (project name, non-empty repository
\* list, access token or bucket name) the run fails with the configuration
\* error before any side effect: no workspace is created and no external
\* command is invoked.
C3_MissingInputFailsBeforeSideEffects ==
  (~ConfigComplete \/ ~Truthy(gcs_bucket_name)) =>
    /\ ~hist.ws_created
    /\ cmds = <<>>
    /\ Done => (outcome = "raised" /\ exc = Exc("ValueError", "read_config"))

\* C4: the log upload is attempted only after the publish has succeeded; a
\* run that fails at a step after the publish ends with an error; and once
\* the publish has succeeded no later step changes the published content,
\* the target binding or the set of sites, or launches a hosting command.
C4_PublishNotRolledBack ==
  /\ [](Invoked({"upload_to_gcs"}) => hist.published)
  /\ []((Done /\ exc.step \in {"flush_log", "artifact_log", "upload"}) =>
          (outcome = "raised" /\ hist.published))
  /\ [][hist.published =>
          /\ live' = live /\ bindings' = bindings /\ sites' = sites
          /\ \A k \in 1..Len(cmds') :
               k > Len(cmds) => cmds'[k].cmd \notin HostingCmds]_vars

\* a run whose log upload failed has ended, and the site still serves what
\* the run published
C4_Witness ==
  /\ Done /\ exc.step = "upload" /\ hist.published
  /\ \E l \in live : l.site = site_id /\ DOMAIN l.tree # {}

\* C5: whenever the site-creation command completes with a non-zero exit
\* code, ensure_site raises nothing and changes no binding, and the run goes
\* on to the target-binding step; this holds also when the site exists
\* already.
C5_CreateFailureTolerated ==
  [][(pc = "ensure_site" /\ Len(cmds') = Len(cmds) + 1 /\ cmds'[Len(cmds')].rc # 0) =>
       /\ exc' = NoExc
       /\ bindings' = bindings
       /\ sites' = sites
       /\ pc' = "apply_target"]_vars

\* site creation has failed against a site that exists already, and the
\* run is at the binding step with the earlier binding in place
C5_Witness ==
  /\ pc = "apply_target"
  /\ LastCmd.cmd = "firebase hosting:sites:create" /\ LastCmd.rc # 0
  /\ site_id \in sites
  /\ <<site_id, site_id>> \in bindings

(***************************************************************************)
(* extract_prefix on its own: the request identifiers it is applied to     *)
(***************************************************************************)
\* the five groups of an identifier, well formed and not
Group1 ==
  {<<"b","3","b","5","e","3","a","0">>,
   <<"B","3","b","5","E","3","A","0">>,
   <<"g","3","b","5","e","3","a","0">>,
   <<"b","3","b","5","e","3","a">>}
Group2 ==
  {<<"1","2","3","4">>,
   <<"1","2","g","4">>}
Group3 ==
  {<<"4","a","b","c">>,
   <<"4","a","b","c","d">>}
Group4 ==
  {<<"9","d","e","f">>,
   <<"9","D","E","F">>}
Group5 ==
  {<<"a","b","c","d","e","f","1","2","3","4","5","6">>,
   <<"a","b","c","d","e","f","1","2","3","4","5","z">>,
   <<"a","b","c","d","e","f","1","2","3","4","5","6","7">>,
   <<"A","B","C","D","E","F","1","2","3","4","5">>}
Separators == {"-", ":"}
\* what follows the fifth group inside the segment
Endings ==
  {<<>>,
   <<"\n">>,
   <<"\n","\n">>,
   <<"x">>,
   <<" ">>}
\* what follows the segment
Suffixes ==
  {<<>>,
   <<"_","p","r","e","v","i","e","w">>,
   <<"_","a","_","b">>,
   <<"_">>}
OtherRequests ==
  {<<>>,
   <<"r","e","q","4","2">>,
   <<"r","e","q","_","4","2">>,
   <<"_","x">>,
   <<"-">>,
   <<"\n">>}

ResolveInputs ==
  {a \o <<sep>> \o b \o <<sep>> \o c \o <<sep>> \o d \o <<sep>> \o e \o t \o u :
     a \in Group1, b \in Group2, c \in Group3, d \in Group4, e \in Group5,
     sep \in Separators, t \in Endings, u \in Suffixes}
  \cup OtherRequests

InitResolve ==
  /\ pc = "resolve"
  /\ request_id \in ResolveInputs
  /\ azure_project_name = <<>>
  /\ azure_repo_names = <<>>
  /\ azure_pat = <<>>
  /\ gcs_bucket_name = <<>>
  /\ site_id = <<>>
  /\ work_dir = {}
  /\ fs = <<>>
  /\ global_log_buffer = <<>>
  /\ flushed = <<>>
  /\ firebase_json = {}
  /\ cmds = <<>>
  /\ exc = NoExc
  /\ credentials_env = {}
  /\ gcloud_account = FALSE
  /\ project_repo_paths = <<>>
  /\ idx = 1
  /\ sites = {}
  /\ bindings = {}
  /\ live = {}
  /\ bucket_objects = {}
  /\ outcome = "running"
  /\ hist = [ws_created |-> FALSE, rm_attempts |-> 0, rm_failed |-> FALSE,
             fetched |-> 0, built |-> 0, staged |-> 0, published |-> FALSE,
             removed |-> {}]

\* line 46: site_id = extract_prefix(request_id)
Resolve ==
  /\ pc = "resolve"
  /\ site_id' = extract_prefix(request_id)
  /\ pc' = "resolved"
  /\ UNCHANGED <<inputs, work_dir, fs, global_log_buffer, flushed,
                 firebase_json, cmds, exc, credentials_env, gcloud_account,
                 project_repo_paths, idx, sites, bindings, live,
                 bucket_objects, outcome, hist>>

NextResolve == Resolve

SpecResolve == InitResolve /\ [][NextResolve]_vars

(***************************************************************************)
(* Claims about extract_prefix                                             *)
(***************************************************************************)
\* the segment of s before its first underscore, all of s when it has none
SegmentOf(s) ==
  LET cut == {k \in 1..Len(s) : s[k] = "_"}
  IN  IF cut = {} THEN s
      ELSE SubSeq(s, 1, (CHOOSE k \in cut : \A j \in cut : k <= j) - 1)

\* the canonical shape: 8, 4, 4, 4 and 12 hexadecimal digits, hyphenated
CanonicalUuid(s) ==
  /\ Len(s) = 36
  /\ \A k \in {9, 14, 19, 24} : s[k] = "-"
  /\ \A k \in (1..36) \ {9, 14, 19, 24} : s[k] \in HexDigits

C7_OtherSegmentUnchanged ==
  (pc = "resolved" /\ ~CanonicalUuid(SegmentOf(request_id))) =>
    site_id = SegmentOf(request_id)

(***************************************************************************)
(* Claims about the routing config and the staging tree                    *)
(***************************************************************************)
\* C8: the routing config is one hosting block whose target is the site
\* id, whose public root is deploy_staging/<site id>, and whose routes are
\* one per entry of the repository list, in the order of the list,
\* /<name>{,/**} to /<name>/index.html, duplicates included.
C8_RoutingConfigPerEntry ==
  \A doc \in firebase_json :
    /\ Len(doc.hosting) = 1
    /\ doc.hosting[1].target = site_id
    /\ doc.hosting[1].public = deploy_staging \o <<"/">> \o site_id
    /\ Len(doc.hosting[1].rewrites) = Len(azure_repo_names)
    /\ \A k \in 1..Len(azure_repo_names) :
         /\ doc.hosting[1].rewrites[k].source =
              <<"/">> \o azure_repo_names[k] \o <<"{", ",", "/", "*", "*", "}">>
         /\ doc.hosting[1].rewrites[k].destination =
              <<"/">> \o azure_repo_names[k]
                \o <<"/", "i", "n", "d", "e", "x", ".", "h", "t", "m", "l">>

\* the config has been written for a list that names one repository twice
C8_Witness ==
  /\ firebase_json # {}
  /\ Len(azure_repo_names) = 2
  /\ azure_repo_names[1] = azure_repo_names[2]

\* the pairs of differently named entries whose build output exists
StageablePairs ==
  {<<a, b>> \in (DOMAIN project_repo_paths) \X (DOMAIN project_repo_paths) :
     /\ project_repo_paths[a].name # project_repo_paths[b].name
     /\ Exists(fs, BuildOutputPath(project_repo_paths[a].path))
     /\ Exists(fs, BuildOutputPath(project_repo_paths[b].path))}

StagedEntry(f, k) ==
  Staged(f, project_repo_paths[k].name, project_repo_paths[k].path)

\* C9: for two repositories with their build outputs in place, staging one
\* then the other gives the same tree as staging them the other way round,
\* and a stage step leaves everything under the staged subdirectory of
\* every other repository as it was.
C9_StagingOrderIndependent ==
  /\ [](pc = "stage" =>
          \A pair \in StageablePairs :
            StagedEntry(StagedEntry(fs, pair[1]), pair[2])
              = StagedEntry(StagedEntry(fs, pair[2]), pair[1]))
  /\ [][pc = "stage" =>
          \A k \in DOMAIN project_repo_paths :
            project_repo_paths[k].name # project_repo_paths[idx].name =>
              TreeAt(fs', Join(PublicStagingDir, project_repo_paths[k].name))
                = TreeAt(fs, Join(PublicStagingDir, project_repo_paths[k].name))]_vars

\* the second of two differently named repositories has been staged next to
\* the files of the first
C9_Witness ==
  /\ pc = "ensure_site"
  /\ Len(project_repo_paths) = 2
  /\ project_repo_paths[1].name # project_repo_paths[2].name
  /\ \A k \in 1..2 :
       DOMAIN TreeAt(fs, Join(PublicStagingDir, project_repo_paths[k].name)) # {}

\* C10: when the build output directory is missing at the stage step, the
\* kind of the error staging raises differs from the kinds the fetch step
\* and the build step raise, the missing-manifest and missing-entry-point
\* errors included.
C10_StageErrorKindDistinct ==
  (/\ pc = "except"
   /\ exc.step = "stage"
   /\ ~Exists(fs, BuildOutputPath(project_repo_paths[idx].path))) =>
    exc.kind \notin {CloneError, BuildPreconditionError, BuildCommandError}

(***************************************************************************)
(* The except and finally clauses of main                                  *)
(***************************************************************************)
\* the positions of the run log that hold the message of source line n
LogLines(n) ==
  {k \in DOMAIN global_log_buffer : global_log_buffer[k].line = n}

\* C11: a failure raised by a step is written to the run log exactly once by
\* the handler of main (line 92), before the removal of the workspace is
\* attempted (lines 101, 103); the removal is attempted when the workspace
\* exists; the failure recorded at the step is the one main raises, and main
\* never returns normally after a step failed.
C11_FailureLoggedThenCleanupThenReraised ==
  /\ [](exc = NoExc => LogLines(92) = {})
  /\ []((exc # NoExc /\ pc \in {"finally", "done"}) =>
          Cardinality(LogLines(92)) = 1)
  /\ [](\A i \in LogLines(92) :
          \A j \in LogLines(101) \cup LogLines(103) : i < j)
  /\ []((Done /\ exc # NoExc) => outcome = "raised")
  /\ [][exc # NoExc => exc' = exc]_vars
  /\ [][(pc = "finally" /\ exc # NoExc /\ work_dir # {} /\ Exists(fs, WorkDir)) =>
          (hist.rm_attempts = 0 /\ hist'.rm_attempts = 1 /\ outcome' = "raised")]_vars

C11_Witness ==
  /\ Done /\ outcome = "raised" /\ exc.step = "build"
  /\ Cardinality(LogLines(92)) = 1
  /\ LogLines(101) # {}

(***************************************************************************)
(* What a run leaves behind                                                *)
(***************************************************************************)
\* the hosting sites this run created (site creation returned zero)
SitesCreatedByRun ==
  {cmds[k].target : k \in {j \in DOMAIN cmds :
      cmds[j].cmd = "firebase hosting:sites:create" /\ cmds[j].rc = 0}}

\* C12: when main has terminated the run has left nothing behind but the
\* published content and the uploaded log: no activated identity, no local
\* file, and, when it failed at target binding, publish or log persistence,
\* no hosting site that this run created.
C12_NoTraceAfterMain ==
  Done =>
    /\ ~gcloud_account
    /\ DOMAIN fs \subseteq {<<>>}
    /\ exc.step \in {"apply_target", "deploy", "flush_log", "artifact_log", "upload"} =>
         SitesCreatedByRun \cap sites = {}

(***************************************************************************)
(* Where the run touches the filesystem and runs its commands              *)
(***************************************************************************)
InsideWorkspace(q) == work_dir # {} /\ IsPrefix(WorkDir, q)

\* the working directories that lie inside the workspace: the workspace
\* itself and the fetch tree of a repository entry
WorkspaceCwds == {"work_dir", "project_repo_path"}

EntriesWithIndex ==
  {k \in DOMAIN project_repo_paths :
     Exists(fs, Join(BuildOutputPath(project_repo_paths[k].path), index_html))}

RoutingRules ==
  UNION {{doc.hosting[1].rewrites[j] : j \in DOMAIN doc.hosting[1].rewrites} :
           doc \in firebase_json}

\* C14: when the publish step is reached, every repository r whose build
\* output holds an index.html has it staged at deploy_staging/<site_id>/r/,
\* the routing configuration holds the rule of r, the build of r ran with
\* base path /r/, and the publish (like the configuration) targets the site
\* id resolved from the request id; a publish that succeeds puts that
\* index.html live under r/.
C14_PublishedTreeMatchesInputs ==
  /\ pc = "deploy" =>
       /\ site_id = extract_prefix(request_id)
       /\ Exists(fs, Join(WorkDir, firebase_json_name))
       /\ \A doc \in firebase_json :
            /\ doc.hosting[1].target = site_id
            /\ doc.hosting[1].public = deploy_staging \o <<"/">> \o site_id
       /\ \A k \in EntriesWithIndex :
            LET r == project_repo_paths[k].name
                staged_index == Join(Join(PublicStagingDir, r), index_html)
            IN  /\ r = azure_repo_names[k]
                /\ Exists(fs, staged_index)
                /\ fs[staged_index] = File("built", r)
                /\ Rewrite(r) \in RoutingRules
                /\ \E j \in DOMAIN cmds :
                     /\ cmds[j].cmd = "flutter build web"
                     /\ cmds[j].target = <<"/">> \o r \o <<"/">>
                     /\ cmds[j].rc = 0
  /\ \A j \in DOMAIN cmds :
       cmds[j].cmd = "firebase deploy --only=hosting" =>
         cmds[j].target = extract_prefix(request_id)
  /\ pc = "flush_log" =>
       \A k \in EntriesWithIndex :
         \E l \in live :
           /\ l.site = extract_prefix(request_id)
           /\ <<project_repo_paths[k].name, index_html>> \in DOMAIN l.tree

C14_Witness ==
  /\ pc = "flush_log"
  /\ Len(azure_repo_names) = 2
  /\ azure_repo_names[1] # azure_repo_names[2]
  /\ EntriesWithIndex = {1, 2}
  /\ request_id = uuid_request

(***************************************************************************)
(* The staging root and the fetch trees during the run                     *)
(***************************************************************************)
\* C15: once the staging root deploy_staging/<site_id> is created, no step
\* before the cleanup deletes it or an ancestor of it inside the workspace.
C15_StagingRootNeverDeletedMidRun ==
  \A r \in hist.removed :
    r.step # "finally" =>
      ~(IsPrefix(WorkDir, r.path) /\ IsPrefix(r.path, PublicStagingDir))

\* C16: the fetch tree of a repository entry, once created, is not deleted
\* by a later fetch, build or stage step, whatever the list of names, lists
\* with a repeated name included; it goes only with the whole workspace.
C16_FetchTreeNeverDeletedIndividually ==
  \A r \in hist.removed :
    r.step \in {"clone", "build", "stage"} => ~r.tree

(***************************************************************************)
(* The log in the blob store                                               *)
(***************************************************************************)
\* C17: when a run that failed at a step after the flush of the log buffer
\* (the artifact copy or the upload) has terminated, the blob store holds
\* the flushed log under <request_id>/<log file name>.
C17_FlushedLogUploadedOnLateFailure ==
  (Done /\ exc.step \in {"artifact_log", "upload"}) =>
    \E o \in bucket_objects : o.key = GcsFileName /\ o.content = flushed

\* C18: a failing removal of the workspace does not change how main ends:
\* after a pipeline that succeeded (line 89 logged) main returns normally,
\* after one that failed (line 92 logged) main raises the failure recorded at
\* the failing step; either way the removal error is the last line of the
\* run log (line 103).
C18_RemovalFailureKeepsOutcome ==
  /\ []((Done /\ hist.rm_failed) =>
          /\ LogLines(103) = {Len(global_log_buffer)}
          /\ global_log_buffer[Len(global_log_buffer)].error
          /\ LogLines(89) # {} => (outcome = "returned" /\ exc = NoExc)
          /\ LogLines(92) # {} => (outcome = "raised" /\ exc.step \in
                                     {MainSteps[k] : k \in DOMAIN MainSteps})
          /\ LogLines(89) # {} \/ LogLines(92) # {})
  /\ [][pc = "finally" => exc' = exc]_vars

C18_Witness ==
  /\ Done /\ hist.rm_failed /\ outcome = "returned"
  /\ LogLines(89) # {} /\ LogLines(103) # {}
  /\ Exists(fs, WorkDir)

(***************************************************************************)
(* The external commands of a run                                          *)
(***************************************************************************)
\* what the commands run for a repository entry are applied to: the fetch
\* url path, the listed directories, the project and the base path
EntryTargets(name) ==
  {quote(azure_project_name) \o <<"/">> \o quote(name),
   name, name \o <<"/">> \o web, <<"/">> \o name \o <<"/">>}

\* how often the commands of one step may run on one target: once, or once
\* for every entry of the repository list they are run for
Allowed(c) ==
  LET entries == {i \in DOMAIN azure_repo_names :
                    c.target \in EntryTargets(azure_repo_names[i])}
  IN  IF entries = {} THEN 1 ELSE Cardinality(entries)

Invocations(c) ==
  Cardinality({j \in DOMAIN cmds :
                 cmds[j].cmd = c.cmd /\ cmds[j].target = c.target})

\* C19: no command is retried and the run stops at the first failure: each
\* command is invoked at most once per step and repository entry, a command
\* that failed (other than the tolerated site creation) is the last command
\* of the run, and once a step has raised no command is invoked any more.
C19_FailStopNoRetry ==
  /\ [](\A k \in DOMAIN cmds : Invocations(cmds[k]) <= Allowed(cmds[k]))
  /\ [](\A k \in DOMAIN cmds :
          (cmds[k].rc # 0 /\ cmds[k].cmd # "firebase hosting:sites:create") =>
            (k = Len(cmds) /\ exc # NoExc))
  /\ [][exc # NoExc => cmds' = cmds]_vars

C19_Witness ==
  /\ Done /\ exc.step = "build"
  /\ azure_repo_names = <<app1, app1>>
  /\ hist.built = 1
  /\ cmds[Len(cmds)].cmd = "flutter build web" /\ cmds[Len(cmds)].rc # 0

(***************************************************************************)
(* The order of the build stages                                           *)
(***************************************************************************)
BuildStages == {"flutter pub get", "flutter build web"}

RECURSIVE StagesOf(_)
\* the build stage commands of a command trace, in the order they were run
StagesOf(trace) ==
  IF trace = <<>> THEN <<>>
  ELSE IF Head(trace).cmd \in BuildStages
         THEN <<Head(trace)>> \o StagesOf(Tail(trace))
         ELSE StagesOf(Tail(trace))

\* C20: the build stages run strictly in the order of the list: stage 2i-1
\* is the dependency resolution of entry i and stage 2i its asset
\* compilation, a stage that failed is the last one, and a stage of an entry
\* is started only in a state in which the manifest and the web entry point
\* of that entry exist; once a check or a stage has failed no stage is
\* started any more.
C20_BuildsSequentialInInputOrder ==
  /\ [](LET stages == StagesOf(cmds)
        IN  \A k \in DOMAIN stages :
              LET i == (k + 1) \div 2
              IN  /\ i \in DOMAIN azure_repo_names
                  /\ stages[k].cmd = IF k % 2 = 1 THEN "flutter pub get"
                                                  ELSE "flutter build web"
                  /\ stages[k].target = IF k % 2 = 1
                                          THEN azure_repo_names[i]
                                          ELSE <<"/">> \o azure_repo_names[i] \o <<"/">>
                  /\ stages[k].rc # 0 => k = Len(stages)
                  /\ k < Len(stages) => stages[k].rc = 0)
  /\ [][StagesOf(cmds') # StagesOf(cmds) =>
          /\ pc = "build"
          /\ Exists(fs, Join(project_repo_paths[idx].path, pubspec_yaml))
          /\ Exists(fs, Join(Join(project_repo_paths[idx].path, web), index_html))
          /\ Len(StagesOf(cmds)) = 2 * (idx - 1)]_vars
  /\ [][exc # NoExc => StagesOf(cmds') = StagesOf(cmds)]_vars

C20_Witness ==
  /\ Done /\ exc.step = "build"
  /\ azure_repo_names = <<app1, app2>>
  /\ hist.built = 1
  /\ Len(StagesOf(cmds)) = 2

(***************************************************************************)
(* The target name and the site identifier                                 *)
(***************************************************************************)
\* C21: the target declared in the routing configuration, the target and
\* the site handed to the binding, the site handed to the site creation
\* and the target handed to the publish are all the site id resolved from
\* the request id, and the publish is invoked only after the binding of
\* that pair has succeeded.
C21_TargetEqualsSiteEverywhere ==
  LET resolved == extract_prefix(request_id)
      bound(k) == /\ cmds[k].cmd = "firebase target:apply hosting"
                  /\ cmds[k].target = resolved \o <<" ">> \o resolved
                  /\ cmds[k].rc = 0
  IN  /\ \A doc \in firebase_json : doc.hosting[1].target = resolved
      /\ \A b \in bindings : b[1] = b[2]
      /\ \A k \in DOMAIN cmds :
           /\ cmds[k].cmd = "firebase hosting:sites:create" =>
                cmds[k].target = resolved
           /\ cmds[k].cmd = "firebase target:apply hosting" =>
                cmds[k].target = resolved \o <<" ">> \o resolved
           /\ cmds[k].cmd = "firebase deploy --only=hosting" =>
                /\ cmds[k].target = resolved
                /\ \E j \in 1..(k - 1) : bound(j)

C21_Witness ==
  /\ pc = "flush_log"
  /\ request_id = uuid_request
  /\ cmds[Len(cmds)].cmd = "firebase deploy --only=hosting"
  /\ cmds[Len(cmds)].rc = 0
  /\ \E k \in DOMAIN cmds : cmds[k].cmd = "firebase hosting:sites:create" /\ cmds[k].rc = 0

(***************************************************************************)
(* The run log                                                             *)
(***************************************************************************)
\* the source lines that log the outcome of an action: the key put in place
\* and exported (154, 158), the two gcloud commands (167, 169), a fetch
\* (286), the two build stages (319, 326), a staging (354), the site
\* creation (233 created, 235 not created), the binding (260), the publish
\* (378)
OutcomeLines == {154, 158, 167, 169, 286, 319, 326, 354, 233, 235, 260, 378}

RECURSIVE Outcomes(_)
\* the outcome lines of a log, in the order they were appended
Outcomes(log) ==
  IF log = <<>> THEN <<>>
  ELSE IF Head(log).line \in OutcomeLines
         THEN <<Head(log).line>> \o Outcomes(Tail(log))
         ELSE Outcomes(Tail(log))

RECURSIVE Times(_, _)
Times(n, s) == IF n = 0 THEN <<>> ELSE s \o Times(n - 1, s)

\* the outcome lines of a successful run over n repository entries, in the
\* order main performs the actions
ExpectedOutcomes(n, created) ==
  <<154, 158, 167, 169>> \o Times(n, <<286>>) \o Times(n, <<319, 326>>)
    \o Times(n, <<354>>) \o <<IF created THEN 233 ELSE 235, 260, 378>>

\* C22: the run log only grows at its end, and the log of a run that ended
\* successfully holds, in the order the actions were performed, a line for
\* each credential step, each command outcome (every fetch, both build
\* stages of every entry, site creation, binding, publish) and each staging.
C22_LogAppendOnlyAndComplete ==
  /\ [][/\ Len(global_log_buffer') >= Len(global_log_buffer)
        /\ SubSeq(global_log_buffer', 1, Len(global_log_buffer))
             = global_log_buffer]_vars
  /\ []((Done /\ outcome = "returned") =>
          \E created \in BOOLEAN :
            Outcomes(global_log_buffer)
              = ExpectedOutcomes(Len(azure_repo_names), created))
  /\ [](pc \in {"artifact_log", "upload"} =>
          \E created \in BOOLEAN :
            Outcomes(flushed) = ExpectedOutcomes(Len(azure_repo_names), created))

C22_Witness ==
  /\ Done /\ outcome = "returned"
  /\ Len(azure_repo_names) = 2
  /\ Outcomes(global_log_buffer) = ExpectedOutcomes(2, TRUE)

\* the values a log mentions: the arguments of its lines
Mentions(log) ==
  UNION {{log[k].args[a] : a \in DOMAIN log[k].args} : k \in DOMAIN log}

\* C23: no line of the run log holds the access token, in the buffer, in
\* the flushed log or in the uploaded log object, so that the logs of two
\* runs that differ only in the token are the same.
C23_TokenNotInLog ==
  Truthy(azure_pat) =>
    /\ azure_pat \notin Mentions(global_log_buffer)
    /\ azure_pat \notin Mentions(flushed)
    /\ \A o \in bucket_objects : azure_pat \notin Mentions(o.content)
====
